---- MODULE Spec2Model ----
(***************************************************************************)
(* Trainer app: the relational schema, the signup trigger and the two      *)
(* stored procedures of the Supabase schema script (src/unnamed/part_000), *)
(* with the browser data-access layer that calls them                      *)
(* (src/frontend/www/js/api.js).                                           *)
(*                                                                         *)
(* Every RPC runs as one PostgreSQL transaction at READ COMMITTED: the     *)
(* rows a transaction inserts stay in its own write set (tx[p].w) until    *)
(* it commits, a unique index makes an insert wait for an in-flight        *)
(* transaction that holds the same key, and an error that no EXCEPTION     *)
(* block catches aborts the transaction and discards its write set.        *)
(* Identity sequences are not transactional: a rolled back insert keeps    *)
(* the value it drew.                                                      *)
(***************************************************************************)
EXTENDS Integers, Sequences, FiniteSets, Bags, TLC

\* ------------------------------------------------------------- bounds
\* accounts the identity provider may create
MaxUsers == 2
\* values the three identity sequences may hand out in all
MaxIds == 4
\* rows a direct INSERT may add to one table in all
MaxRows == 1

\* ------------------------------------------------------------ domains
NULL == "NULL"
Procs == {"p1", "p2"}

UuidOf(n) == "u" \o ToString(n)
Uuids == {UuidOf(n) : n \in 1..MaxUsers}
Emails == {"anna@x.it", "bruno@x.it"}
\* raw_user_meta_data->>'role': the two accepted values, another text, absent
MetaRoles == {"trainer", "client", "admin", NULL}

VARIABLES
  auth_users,          \* auth.users: the identity provider's accounts
  auth_users_seq,      \* number of account ids handed out so far
  profiles,            \* table profiles
  clients,             \* table clients, a bag of (trainer_id, client_id) rows
  exercises,           \* table exercises (ids)
  training_programs,   \* table training_programs
  training_days,       \* table training_days
  program_exercises,   \* table program_exercises
  training_programs_id_seq,  \* last value of each identity sequence
  training_days_id_seq,
  program_exercises_id_seq,
  tx,                  \* per connection: the call in progress, or its last one
  result,              \* the response the last step delivered, if it delivered one
  scan,                \* the food-scan function: the request it serves and its response
  workout_logs,        \* table workout_logs
  food_plans,          \* table food_plans
  food_days,           \* table food_days
  meals,               \* table meals
  meal_items,          \* table meal_items
  chat_messages,       \* table chat_messages
  progress_photos,     \* table progress_photos
  id_seq               \* last value of the identity sequence of each of these tables

tables == <<auth_users, auth_users_seq, profiles, clients, exercises,
            training_programs, training_days, program_exercises>>
seqs == <<training_programs_id_seq, training_days_id_seq, program_exercises_id_seq>>
vars == <<auth_users, auth_users_seq, profiles, clients, exercises,
          training_programs, training_days, program_exercises,
          training_programs_id_seq, training_days_id_seq, program_exercises_id_seq,
          tx, result, scan, workout_logs, food_plans, food_days, meals, meal_items,
          chat_messages, progress_photos, id_seq>>
\* what the operations on accounts, links and programs leave alone
rest == <<scan, food_plans, food_days, meals, meal_items, chat_messages,
          progress_photos, id_seq>>
others == <<rest, workout_logs>>
\* the tables with an identity sequence in id_seq
SeqTables == {"workout_logs", "food_plans", "food_days", "meals", "meal_items",
              "chat_messages", "progress_photos"}

\* ----------------------------------------------------------- helpers
Idle == [op |-> "none", pc |-> "idle"]
NoResult == [to |-> "none", op |-> "none", rsp |-> [kind |-> "none"]]
Response(p, op, rsp) == [to |-> p, op |-> op, rsp |-> rsp]
\* a value returned by the function, as supabase.rpc hands it over in `data`
Json(v) == [kind |-> "data", data |-> v]
\* an error raised out of the function, as supabase.rpc hands it over in `error`
Raised(state) == [kind |-> "error", sqlstate |-> state]

\* ids handed out so far by the identity sequences
IdsDrawn == training_programs_id_seq + training_days_id_seq + program_exercises_id_seq

ProfileIds == {r.id : r \in profiles}
ProfileByEmail(e) == {r \in profiles : r.email = e}

Init ==
  /\ auth_users = {}
  /\ auth_users_seq = 0
  /\ profiles = {}
  /\ clients = EmptyBag
  /\ exercises = {1}
  /\ training_programs = {}
  /\ training_days = {}
  /\ program_exercises = {}
  /\ training_programs_id_seq = 0
  /\ training_days_id_seq = 0
  /\ program_exercises_id_seq = 0
  /\ tx = [p \in Procs |-> Idle]
  /\ result = NoResult
  /\ scan = [pc |-> "idle"]
  /\ workout_logs = {}
  /\ food_plans = {}
  /\ food_days = {}
  /\ meals = {}
  /\ meal_items = {}
  /\ chat_messages = {}
  /\ progress_photos = {}
  /\ id_seq = [t \in SeqTables |-> 0]

\* ---------------------------------------------- account provisioning
\* A role column with no constraint.
RoleCheckNone(role) == TRUE

\* CHECK (role IN ('trainer', 'client')) and NOT NULL on profiles.role
RoleCheck(role) == role /= NULL /\ role \in {"trainer", "client"}

\* The row handle_new_user inserts for the new account.
NewProfile(new) == [id |-> new.id, email |-> new.email, role |-> new.role]

\* profiles constraints: primary key (id), UNIQUE (email), the role check
ProfileInsertOk(row) ==
  /\ row.id \notin ProfileIds
  /\ ProfileByEmail(row.email) = {}
  /\ RoleCheck(row.role)

\* INSERT ON auth.users with the AFTER INSERT trigger on_auth_user_created:
\* the trigger's insert is part of the same statement, so a constraint
\* violation in it fails the account insert as a whole and leaves no trace.
\* Account ids are fresh: the n-th account that comes to exist is UuidOf(n).
handle_new_user(email, role) ==
  /\ auth_users_seq < MaxUsers
  /\ LET new == [id |-> UuidOf(auth_users_seq + 1), email |-> email, role |-> role]
     IN \/ /\ ProfileInsertOk(NewProfile(new))
           /\ auth_users_seq' = auth_users_seq + 1
           /\ auth_users' = auth_users \cup {new}
           /\ profiles' = profiles \cup {NewProfile(new)}
        \/ /\ ~ProfileInsertOk(NewProfile(new))
           /\ UNCHANGED <<auth_users_seq, auth_users, profiles>>
  /\ result' = NoResult
  /\ UNCHANGED others
  /\ UNCHANGED <<clients, exercises, training_programs, training_days,
                 program_exercises, seqs, tx>>

SignUp == \E email \in Emails, role \in MetaRoles : handle_new_user(email, role)

\* Sign-ups of a fixed roster: create_full_program and deleteProgram read no
\* email and no role.
Roster ==
  { [email |-> "anna@x.it", role |-> "trainer"],
    [email |-> "bruno@x.it", role |-> "client"],
    [email |-> "bruno@x.it", role |-> "admin"] }
SignUpRoster == \E a \in Roster : handle_new_user(a.email, a.role)

\* ------------------------------------------------ add_client_by_email
MsgNotFound == "Nessun utente trovato con questa email."
MsgNotClient == "L'utente trovato non è un cliente."
MsgAdded == "Cliente aggiunto con successo!"
MsgAlready == "Questo cliente è già stato aggiunto."
MsgUnexpected == "Si è verificato un errore imprevisto."

ErrorObject(msg) == [status |-> "error", message |-> msg]
AddedObject(id) == [status |-> "success", message |-> MsgAdded, client_id |-> id]

\* auth.uid() of a request: a signed-up account, or NULL without a session
Callers == {a.id : a \in auth_users} \cup {NULL}

InFlight(p) == tx[p].pc \notin {"idle", "returned"}

\* SELECT id, role INTO client_record FROM profiles WHERE email = client_email:
\* the matching row, or a record of NULLs when no row matches
SelectClientRecord(client_email) ==
  IF ProfileByEmail(client_email) = {}
  THEN [id |-> NULL, role |-> NULL]
  ELSE LET r == CHOOSE r \in ProfileByEmail(client_email) : TRUE
       IN [id |-> r.id, role |-> r.role]

\* A test that is true of no record.
RecordIsNullNever(rec) == FALSE

\* client_record IS NULL: true of a record whose fields are all NULL
RecordIsNull(rec) == rec.id = NULL /\ rec.role = NULL

ClientLink(t, c) == [trainer_id |-> t, client_id |-> c]

\* An insert that waits for no other transaction.
PendingClientKeysNoWait(p) == {}

\* Keys of clients' primary key that other in-flight transactions have inserted
\* and not yet committed: an insert of the same key waits for them.
PendingClientKeys(p) ==
  UNION {BagToSet(tx[q].w_clients) :
           q \in {q \in Procs \ {p} : tx[q].op = "add_client_by_email" /\ InFlight(q)}}

\* An insert that checks no primary key.
ClientsInsertStateNoKey(row) ==
  IF row.trainer_id = NULL \/ row.client_id = NULL THEN "23502"
  ELSE IF row.trainer_id \notin ProfileIds \/ row.client_id \notin ProfileIds
       THEN "23503"
  ELSE "00000"

\* The outcome of INSERT INTO clients VALUES (auth.uid(), client_record.id),
\* as the SQLSTATE class the EXCEPTION block sees ("00000": inserted).
ClientsInsertState(row) ==
  IF row.trainer_id = NULL \/ row.client_id = NULL THEN "23502"  \* not_null_violation
  ELSE IF BagIn(row, clients) THEN "23505"                       \* unique_violation
  ELSE IF row.trainer_id \notin ProfileIds \/ row.client_id \notin ProfileIds
       THEN "23503"                                              \* foreign_key_violation
  ELSE "00000"

\* A handler with the unique_violation branch only.
AddClientHandlerOneBranch(state) == ErrorObject(MsgAlready)

\* EXCEPTION WHEN unique_violation ... WHEN OTHERS ...
AddClientHandler(state) ==
  IF state = "23505" THEN ErrorObject(MsgAlready) ELSE ErrorObject(MsgUnexpected)

\* The call, up to the INSERT: the lookup and the two early returns.
\* pre_link is history: whether the link was committed when the call began.
AddClientCall(p, uid, client_email) ==
  /\ ~InFlight(p)
  /\ LET rec == SelectClientRecord(client_email)
         call == [op |-> "add_client_by_email", uid |-> uid,
                  client_email |-> client_email, client_record |-> rec,
                  w_clients |-> EmptyBag,
                  pre_link |-> BagIn(ClientLink(uid, rec.id), clients)]
     IN \/ /\ RecordIsNull(rec)
           /\ tx' = [tx EXCEPT ![p] = call @@ [pc |-> "commit", ret |-> ErrorObject(MsgNotFound)]]
        \/ /\ ~RecordIsNull(rec)
           /\ rec.role /= "client"
           /\ tx' = [tx EXCEPT ![p] = call @@ [pc |-> "commit", ret |-> ErrorObject(MsgNotClient)]]
        \/ /\ ~RecordIsNull(rec)
           /\ rec.role = "client"
           /\ tx' = [tx EXCEPT ![p] = call @@ [pc |-> "insert", ret |-> NULL]]
  /\ result' = NoResult
  /\ UNCHANGED others
  /\ UNCHANGED <<tables, seqs>>

\* The INSERT and the RETURN or the EXCEPTION handler that follows it.
AddClientInsert(p) ==
  /\ tx[p].op = "add_client_by_email"
  /\ tx[p].pc = "insert"
  /\ LET row == ClientLink(tx[p].uid, tx[p].client_record.id)
         state == ClientsInsertState(row)
     IN /\ row \notin PendingClientKeys(p)
        /\ \/ /\ state = "00000"
              /\ tx' = [tx EXCEPT ![p].pc = "commit",
                                  ![p].w_clients = SetToBag({row}),
                                  ![p].ret = AddedObject(tx[p].client_record.id)]
           \/ /\ state /= "00000"
              /\ tx' = [tx EXCEPT ![p].pc = "commit",
                                  ![p].ret = AddClientHandler(state)]
  /\ result' = NoResult
  /\ UNCHANGED others
  /\ UNCHANGED <<tables, seqs>>

\* The request ends: the transaction commits and the function's value is
\* handed to the caller.
AddClientReturn(p) ==
  /\ tx[p].op = "add_client_by_email"
  /\ tx[p].pc = "commit"
  /\ clients' = clients (+) tx[p].w_clients
  /\ tx' = [tx EXCEPT ![p].pc = "returned", ![p].w_clients = EmptyBag]
  /\ result' = Response(p, "add_client_by_email", Json(tx[p].ret))
  /\ UNCHANGED others
  /\ UNCHANGED <<auth_users, auth_users_seq, profiles, exercises, training_programs,
                 training_days, program_exercises, seqs>>

\* addClient(clientEmail) of api.js: the function's value, or null on an error
addClient(rsp) == IF rsp.kind = "error" THEN [kind |-> "null"] ELSE rsp

AddClient ==
  \E p \in Procs :
    \/ \E uid \in Callers, client_email \in Emails : AddClientCall(p, uid, client_email)
    \/ AddClientInsert(p)
    \/ AddClientReturn(p)

NextClient == SignUp \/ AddClient
SpecClient == Init /\ [][NextClient]_vars

\* ------------------------------------------------ create_full_program
\* Texts the document carries where the function casts to INT or BIGINT.
IsIntText(t) == t \in {"1", "2", "3", "4", "60"}
\* text::INT of a well-formed text
CastInt(t) ==
  CASE t = "1" -> 1 [] t = "2" -> 2 [] t = "3" -> 3 [] t = "4" -> 4 [] t = "60" -> 60

ProgramNames == {"Push Pull Legs", NULL}
\* client_id_in: the id of the second account (a profile once that account has
\* signed up, before that an id no profile has), or no id
ClientIds == {UuidOf(2), NULL}

\* Elements of the `days` array
DayDescs ==
  { [name |-> "Day 1", day_order |-> "1"],
    [name |-> "Day 2", day_order |-> "2"],
    [name |-> NULL,    day_order |-> "1"],
    [name |-> "Day 3", day_order |-> "x"] }

\* Elements of a day's `exercises` array
ExerciseDescs ==
  { [exercise_id |-> "1", sets |-> "3", reps |-> "8-12", rest_period_seconds |-> "60",
     exercise_order |-> "1", notes |-> NULL],
    [exercise_id |-> "1", sets |-> "4", reps |-> "5", rest_period_seconds |-> "60",
     exercise_order |-> "2", notes |-> "slow"],
    [exercise_id |-> "2", sets |-> "3", reps |-> "5", rest_period_seconds |-> "60",
     exercise_order |-> "1", notes |-> NULL],
    [exercise_id |-> "1", sets |-> "x", reps |-> "5", rest_period_seconds |-> "60",
     exercise_order |-> "1", notes |-> NULL] }

MsgCreated == "Program created successfully"
CreatedObject(id) == [status |-> "success", message |-> MsgCreated, program_id |-> id]

\* A row whose client is the caller.
ProgramRowClientFromCaller(id, program_name, uid, client_id_in) ==
  [id |-> id, name |-> program_name, trainer_id |-> uid, client_id |-> uid]

\* The row of INSERT INTO training_programs ... RETURNING id
ProgramRow(id, program_name, uid, client_id_in) ==
  [id |-> id, name |-> program_name, trainer_id |-> uid, client_id |-> client_id_in]

\* NOT NULL on name, trainer_id, client_id; the policy's check auth.uid() =
\* trainer_id; the two foreign keys to profiles
ProgramInsertState(row) ==
  IF row.name = NULL \/ row.trainer_id = NULL \/ row.client_id = NULL THEN "23502"
  ELSE IF row.trainer_id \notin ProfileIds \/ row.client_id \notin ProfileIds THEN "23503"
  ELSE "00000"

\* The row of INSERT INTO training_days ... RETURNING id
DayRow(id, program_id, day_data) ==
  [id |-> id, program_id |-> program_id, name |-> day_data.name,
   day_order |-> CastInt(day_data.day_order)]

\* the cast of day_order; NOT NULL on name
DayInsertState(day_data) ==
  IF ~IsIntText(day_data.day_order) THEN "22P02"   \* invalid_text_representation
  ELSE IF day_data.name = NULL THEN "23502"
  ELSE "00000"

\* A row that takes exercise_order from the sets field.
ExerciseRowOrderFromSets(id, day_id, exercise_data) ==
  [id |-> id, day_id |-> day_id,
   exercise_id |-> CastInt(exercise_data.exercise_id),
   sets |-> CastInt(exercise_data.sets),
   reps |-> exercise_data.reps,
   rest_period_seconds |-> CastInt(exercise_data.rest_period_seconds),
   exercise_order |-> CastInt(exercise_data.sets),
   notes |-> exercise_data.notes]

\* The row of INSERT INTO program_exercises
ExerciseRow(id, day_id, exercise_data) ==
  [id |-> id, day_id |-> day_id,
   exercise_id |-> CastInt(exercise_data.exercise_id),
   sets |-> CastInt(exercise_data.sets),
   reps |-> exercise_data.reps,
   rest_period_seconds |-> CastInt(exercise_data.rest_period_seconds),
   exercise_order |-> CastInt(exercise_data.exercise_order),
   notes |-> exercise_data.notes]

\* UNIQUE (day_id, exercise_id, exercise_order)
ExerciseKey(r) == <<r.day_id, r.exercise_id, r.exercise_order>>

\* An insert that checks no unique constraint.
ExerciseInsertStateNoUnique(p, day_id, exercise_data) ==
  IF \E f \in {"exercise_id", "sets", "rest_period_seconds", "exercise_order"} :
        ~IsIntText(exercise_data[f])
  THEN "22P02"
  ELSE IF CastInt(exercise_data.exercise_id) \notin exercises THEN "23503"
  ELSE "00000"

\* the four casts; the unique constraint, against the committed rows and this
\* transaction's own (the day is this transaction's, so no other transaction
\* holds a key of it); the foreign key to exercises
ExerciseInsertState(p, day_id, exercise_data) ==
  IF \E f \in {"exercise_id", "sets", "rest_period_seconds", "exercise_order"} :
        ~IsIntText(exercise_data[f])
  THEN "22P02"
  ELSE LET row == ExerciseRow(0, day_id, exercise_data)
       IN IF \E r \in program_exercises \cup tx[p].w_exercises :
                ExerciseKey(r) = ExerciseKey(row)
          THEN "23505"
          ELSE IF row.exercise_id \notin exercises THEN "23503"
          ELSE "00000"

\* What the other connections see of a table after a transaction in progress
\* has inserted `row`: the table as it was, the row being uncommitted.
VisibleAfterInsertAutocommit(table, row) == table \cup {row}
VisibleAfterInsert(table, row) == table

\* An error after which the rows inserted so far stay.
RollbackKeepsRows(p, state) ==
  /\ tx' = [tx EXCEPT ![p] = Idle]
  /\ result' = Response(p, "create_full_program", Raised(state))
  /\ training_programs' = training_programs \cup (IF InFlight(p) THEN tx[p].w_programs ELSE {})
  /\ training_days' = training_days \cup (IF InFlight(p) THEN tx[p].w_days ELSE {})
  /\ program_exercises' = program_exercises \cup (IF InFlight(p) THEN tx[p].w_exercises ELSE {})
  /\ UNCHANGED <<auth_users, auth_users_seq, profiles, clients, exercises>>

\* An error leaves the function (it has no EXCEPTION block): the transaction
\* aborts, its write set is discarded, and the caller gets the error.
Rollback(p, state) ==
  /\ tx' = [tx EXCEPT ![p] = Idle]
  /\ result' = Response(p, "create_full_program", Raised(state))
  /\ UNCHANGED tables

\* The call and its first statement, the insert of the program row.
CreateCall(p, uid, program_name, client_id_in) ==
  /\ ~InFlight(p)
  /\ IdsDrawn < MaxIds
  /\ training_programs_id_seq' = training_programs_id_seq + 1
  /\ UNCHANGED others
  /\ UNCHANGED <<training_days_id_seq, program_exercises_id_seq, auth_users,
                 auth_users_seq, profiles, clients, exercises, training_days,
                 program_exercises>>
  /\ LET id == training_programs_id_seq + 1
         row == ProgramRow(id, program_name, uid, client_id_in)
         state == ProgramInsertState(row)
         call == [op |-> "create_full_program", uid |-> uid,
                  program_name |-> program_name, client_id_in |-> client_id_in,
                  days |-> <<>>, new_day_id |-> 0,
                  w_days |-> {}, w_exercises |-> {}]
     IN \/ /\ state = "00000"
           /\ tx' = [tx EXCEPT ![p] = call @@ [pc |-> "loop", new_program_id |-> id,
                                              w_programs |-> {row}]]
           /\ training_programs' = VisibleAfterInsert(training_programs, row)
           /\ result' = NoResult
        \/ /\ state /= "00000"
           /\ tx' = [tx EXCEPT ![p] = Idle]
           /\ result' = Response(p, "create_full_program", Raised(state))
           /\ UNCHANGED training_programs

\* One pass of the outer loop's head: the next element of `days` and the
\* insert of its day row.
InsertDay(p, day_data) ==
  /\ tx[p].op = "create_full_program"
  /\ tx[p].pc = "loop"
  /\ IdsDrawn < MaxIds
  /\ training_days_id_seq' = training_days_id_seq + 1
  /\ UNCHANGED others
  /\ UNCHANGED <<training_programs_id_seq, program_exercises_id_seq>>
  /\ LET id == training_days_id_seq + 1
         state == DayInsertState(day_data)
     IN \/ /\ state = "00000"
           /\ tx' = [tx EXCEPT
                ![p].new_day_id = id,
                ![p].days = Append(@, [name |-> day_data.name,
                                       day_order |-> day_data.day_order,
                                       exercises |-> <<>>]),
                ![p].w_days = @ \cup {DayRow(id, tx[p].new_program_id, day_data)}]
           /\ training_days' =
                VisibleAfterInsert(training_days, DayRow(id, tx[p].new_program_id, day_data))
           /\ result' = NoResult
           /\ UNCHANGED <<auth_users, auth_users_seq, profiles, clients, exercises,
                          training_programs, program_exercises>>
        \/ /\ state /= "00000"
           /\ Rollback(p, state)

\* One pass of the inner loop: the next element of the current day's
\* `exercises` and the insert of its row.
InsertExercise(p, exercise_data) ==
  /\ tx[p].op = "create_full_program"
  /\ tx[p].pc = "loop"
  /\ tx[p].new_day_id /= 0
  /\ IdsDrawn < MaxIds
  /\ program_exercises_id_seq' = program_exercises_id_seq + 1
  /\ UNCHANGED others
  /\ UNCHANGED <<training_programs_id_seq, training_days_id_seq>>
  /\ LET id == program_exercises_id_seq + 1
         state == ExerciseInsertState(p, tx[p].new_day_id, exercise_data)
         n == Len(tx[p].days)
     IN \/ /\ state = "00000"
           /\ tx' = [tx EXCEPT
                ![p].days[n].exercises = Append(@, exercise_data),
                ![p].w_exercises = @ \cup {ExerciseRow(id, tx[p].new_day_id, exercise_data)}]
           /\ program_exercises' =
                VisibleAfterInsert(program_exercises,
                                   ExerciseRow(id, tx[p].new_day_id, exercise_data))
           /\ result' = NoResult
           /\ UNCHANGED <<auth_users, auth_users_seq, profiles, clients, exercises,
                          training_programs, training_days>>
        \/ /\ state /= "00000"
           /\ Rollback(p, state)

\* Both loops are through: RETURN, the transaction commits and the caller
\* gets the function's value.
CreateReturn(p) ==
  /\ tx[p].op = "create_full_program"
  /\ tx[p].pc = "loop"
  /\ training_programs' = training_programs \cup tx[p].w_programs
  /\ training_days' = training_days \cup tx[p].w_days
  /\ program_exercises' = program_exercises \cup tx[p].w_exercises
  /\ tx' = [tx EXCEPT ![p] = Idle]
  /\ result' = Response(p, "create_full_program", Json(CreatedObject(tx[p].new_program_id)))
  /\ UNCHANGED others
  /\ UNCHANGED <<auth_users, auth_users_seq, profiles, clients, exercises, seqs>>

\* createProgram(programData) of api.js: the function's value, or null on an error
createProgram(rsp) == IF rsp.kind = "error" THEN [kind |-> "null"] ELSE rsp

CreateProgram ==
  \E p \in Procs :
    \/ \E uid \in Callers, program_name \in ProgramNames, client_id_in \in ClientIds :
         CreateCall(p, uid, program_name, client_id_in)
    \/ \E day_data \in DayDescs : InsertDay(p, day_data)
    \/ \E exercise_data \in ExerciseDescs : InsertExercise(p, exercise_data)
    \/ CreateReturn(p)

\* ------------------------------------------------------ deleteProgram
\* Rows of training_programs the DELETE of this caller reaches: the policy
\* "Trainers can manage their own programs" (auth.uid() = trainer_id).
DeletablePrograms(uid, programId) ==
  {r \in training_programs : r.id = programId /\ r.trainer_id = uid}

\* A foreign key of program_exercises.day_id that does not cascade.
ExercisesOfDaysNoCascade(dayIds) == {}

\* ON DELETE CASCADE of training_days.program_id
DaysOfPrograms(programIds) == {d \in training_days : d.program_id \in programIds}
\* ON DELETE CASCADE of program_exercises.day_id
ExercisesOfDays(dayIds) == {e \in program_exercises : e.day_id \in dayIds}

\* ON DELETE CASCADE of workout_logs.program_exercise_id
LogsOfExercises(exerciseIds) ==
  {l \in workout_logs : l.program_exercise_id \in exerciseIds}

\* deleteProgram(programId) of api.js: one DELETE statement, with the
\* cascades the schema declares; it reports true whether or not a row matched
\* (`deleted`, the statement's row count, is not passed on to its caller).
deleteProgram(p, uid, programId) ==
  /\ ~InFlight(p)
  /\ LET gone == DeletablePrograms(uid, programId)
         days == DaysOfPrograms({r.id : r \in gone})
         assignments == ExercisesOfDays({d.id : d \in days})
     IN /\ training_programs' = training_programs \ gone
        /\ training_days' = training_days \ days
        /\ program_exercises' = program_exercises \ assignments
        /\ workout_logs' = workout_logs \ LogsOfExercises({e.id : e \in assignments})
        /\ tx' = [tx EXCEPT ![p] = Idle]
        /\ result' = Response(p, "deleteProgram",
                              [kind |-> "data", data |-> TRUE, deleted |-> Cardinality(gone)])
  /\ UNCHANGED rest
  /\ UNCHANGED <<auth_users, auth_users_seq, profiles, clients, exercises, seqs>>

\* ------------------------------------------ getAssignedWorkoutProgram
\* The nested select of one program: its days, and each day's assignments.
ProgramTree(r) ==
  [id |-> r.id, name |-> r.name, trainer_id |-> r.trainer_id, client_id |-> r.client_id,
   training_days |->
     { [id |-> d.id, name |-> d.name, day_order |-> d.day_order,
        program_exercises |-> ExercisesOfDays({d.id})] :
       d \in DaysOfPrograms({r.id}) }]

\* the null data of a select that gave no row
NullData == [id |-> 0]

\* getAssignedWorkoutProgram() of api.js: null without a session; else one
\* select of the programs whose client is the caller, each with its tree;
\* .single() gives the row when there is exactly one and otherwise the error
\* PGRST116, which the function ignores, returning the null data.
getAssignedWorkoutProgram(p, uid) ==
  /\ ~InFlight(p)
  /\ LET rows == {r \in training_programs : r.client_id = uid}
         data == IF uid /= NULL /\ Cardinality(rows) = 1
                 THEN ProgramTree(CHOOSE r \in rows : TRUE)
                 ELSE NullData
     IN result' = Response(p, "getAssignedWorkoutProgram", Json(data))
  /\ tx' = [tx EXCEPT ![p] = Idle]
  /\ UNCHANGED others
  /\ UNCHANGED <<tables, seqs>>

GetAssignedWorkoutProgram ==
  \E p \in Procs, uid \in Callers : getAssignedWorkoutProgram(p, uid)

DeleteProgram ==
  \E p \in Procs, uid \in Callers, programId \in 1..training_programs_id_seq :
    deleteProgram(p, uid, programId)

NextProgram == SignUpRoster \/ CreateProgram \/ DeleteProgram \/ GetAssignedWorkoutProgram
SpecProgram == Init /\ [][NextProgram]_vars

\* ------------------------------------------------ rows and accounts
\* Direct statements on the tables, as PostgREST runs them for a signed-in
\* user: one INSERT of one row, which the table's constraints and policies
\* accept, and the deletion of an account with the cascades the schema
\* declares.
DataTables == {"clients", "training_programs", "training_days", "program_exercises"} \cup SeqTables

\* food_library (ids)
FoodLibrary == {1}

\* the value the table's identity sequence has handed out last
LastId(t) ==
  CASE t = "training_programs" -> training_programs_id_seq
    [] t = "training_days" -> training_days_id_seq
    [] t = "program_exercises" -> program_exercises_id_seq
    [] t = "clients" -> BagCardinality(clients)
    [] OTHER -> id_seq[t]

\* The rows an INSERT into table t can add now: the foreign keys name rows
\* that exist, the NOT NULL columns have values, the keys are new, and the
\* policy's check holds for the owner as caller.
InsertableRows(t) ==
  LET id == LastId(t) + 1
  IN CASE t = "clients" ->
            {r \in {ClientLink(a, b) : a, b \in ProfileIds} : ClientsInsertState(r) = "00000"}
       [] t = "training_programs" ->
            {r \in {ProgramRow(id, "Push Pull Legs", a, b) : a, b \in ProfileIds} :
               ProgramInsertState(r) = "00000"}
       [] t = "training_days" ->
            {DayRow(id, r.id, [name |-> "Day 1", day_order |-> "1"]) : r \in training_programs}
       [] t = "program_exercises" ->
            {ExerciseRow(id, d.id, [exercise_id |-> "1", sets |-> "3", reps |-> "8-12",
                                    rest_period_seconds |-> "60", exercise_order |-> "1",
                                    notes |-> NULL]) : d \in training_days}
       [] t = "workout_logs" ->
            {[id |-> id, program_exercise_id |-> e.id, client_id |-> a, set_number |-> 1] :
               e \in program_exercises, a \in ProfileIds}
       [] t = "food_plans" ->
            {[id |-> id, name |-> "Cut", trainer_id |-> a, client_id |-> b] : a, b \in ProfileIds}
       [] t = "food_days" ->
            {[id |-> id, plan_id |-> r.id, name |-> "Monday"] : r \in food_plans}
       [] t = "meals" ->
            {[id |-> id, day_id |-> d.id, name |-> "Lunch"] : d \in food_days}
       [] t = "meal_items" ->
            {[id |-> id, meal_id |-> m.id, food_id |-> f] : m \in meals, f \in FoodLibrary}
       [] t = "chat_messages" ->
            {[id |-> id, sender_id |-> a, receiver_id |-> b, message_text |-> "ciao"] :
               a, b \in ProfileIds}
       [] t = "progress_photos" ->
            {[id |-> id, client_id |-> a, photo_url |-> "p.jpg"] : a \in ProfileIds}

\* INSERT INTO t: one row, with the next value of t's identity sequence.
InsertRow(t, row) ==
  /\ LastId(t) < MaxRows
  /\ row \in InsertableRows(t)
  /\ clients' = IF t = "clients" THEN clients (+) SetToBag({row}) ELSE clients
  /\ training_programs' = IF t = "training_programs" THEN training_programs \cup {row} ELSE training_programs
  /\ training_days' = IF t = "training_days" THEN training_days \cup {row} ELSE training_days
  /\ program_exercises' = IF t = "program_exercises" THEN program_exercises \cup {row} ELSE program_exercises
  /\ workout_logs' = IF t = "workout_logs" THEN workout_logs \cup {row} ELSE workout_logs
  /\ food_plans' = IF t = "food_plans" THEN food_plans \cup {row} ELSE food_plans
  /\ food_days' = IF t = "food_days" THEN food_days \cup {row} ELSE food_days
  /\ meals' = IF t = "meals" THEN meals \cup {row} ELSE meals
  /\ meal_items' = IF t = "meal_items" THEN meal_items \cup {row} ELSE meal_items
  /\ chat_messages' = IF t = "chat_messages" THEN chat_messages \cup {row} ELSE chat_messages
  /\ progress_photos' = IF t = "progress_photos" THEN progress_photos \cup {row} ELSE progress_photos
  /\ training_programs_id_seq' = training_programs_id_seq + (IF t = "training_programs" THEN 1 ELSE 0)
  /\ training_days_id_seq' = training_days_id_seq + (IF t = "training_days" THEN 1 ELSE 0)
  /\ program_exercises_id_seq' = program_exercises_id_seq + (IF t = "program_exercises" THEN 1 ELSE 0)
  /\ id_seq' = IF t \in SeqTables THEN [id_seq EXCEPT ![t] = @ + 1] ELSE id_seq
  /\ result' = NoResult
  /\ UNCHANGED <<auth_users, auth_users_seq, profiles, exercises, tx, scan>>

\* A DELETE that waits for no transaction.
PendingProfileRefsNone == {}

\* Profiles that rows of transactions in progress refer to: the foreign key
\* check of an insert locks the profile row it names until the transaction
\* ends, and a DELETE of that profile waits for it.
PendingProfileRefs ==
  UNION {IF tx[p].op = "add_client_by_email"
         THEN UNION {{r.trainer_id, r.client_id} : r \in BagToSet(tx[p].w_clients)}
         ELSE UNION {{r.trainer_id, r.client_id} : r \in tx[p].w_programs} :
           p \in {q \in Procs : InFlight(q)}}

\* Foreign keys to parent rows that do not cascade.
ChildrenOfNone(rows, column, parents) == {}

\* ON DELETE CASCADE of the foreign keys to profiles(id), and of the foreign
\* keys to the rows these reach
OwnedBy(rows, columns, id) == {r \in rows : \E c \in columns : r[c] = id}
ChildrenOf(rows, column, parents) == {r \in rows : r[column] \in {x.id : x \in parents}}

\* DELETE FROM auth.users WHERE id = ...: profiles.id cascades from the
\* account, and every table that refers to the profile cascades from it.
DeleteAccount(id) ==
  /\ id \in {a.id : a \in auth_users}
  /\ id \notin PendingProfileRefs
  /\ LET programs == OwnedBy(training_programs, {"trainer_id", "client_id"}, id)
         days == ChildrenOf(training_days, "program_id", programs)
         assignments == ChildrenOf(program_exercises, "day_id", days)
         plans == OwnedBy(food_plans, {"trainer_id", "client_id"}, id)
         fdays == ChildrenOf(food_days, "plan_id", plans)
         fmeals == ChildrenOf(meals, "day_id", fdays)
     IN /\ auth_users' = {a \in auth_users : a.id /= id}
        /\ profiles' = {r \in profiles : r.id /= id}
        /\ clients' = SetToBag(BagToSet(clients) \
                                 OwnedBy(BagToSet(clients), {"trainer_id", "client_id"}, id))
        /\ training_programs' = training_programs \ programs
        /\ training_days' = training_days \ days
        /\ program_exercises' = program_exercises \ assignments
        /\ workout_logs' = (workout_logs \ OwnedBy(workout_logs, {"client_id"}, id))
                             \ ChildrenOf(workout_logs, "program_exercise_id", assignments)
        /\ food_plans' = food_plans \ plans
        /\ food_days' = food_days \ fdays
        /\ meals' = meals \ fmeals
        /\ meal_items' = meal_items \ ChildrenOf(meal_items, "meal_id", fmeals)
        /\ chat_messages' = chat_messages \
                              OwnedBy(chat_messages, {"sender_id", "receiver_id"}, id)
        /\ progress_photos' = progress_photos \ OwnedBy(progress_photos, {"client_id"}, id)
  /\ result' = NoResult
  /\ UNCHANGED <<auth_users_seq, exercises, seqs, id_seq, tx, scan>>

NextCascade ==
  \/ SignUpRoster
  \/ \E t \in DataTables : \E row \in InsertableRows(t) : InsertRow(t, row)
  \/ \E id \in Uuids : DeleteAccount(id)
SpecCascade == Init /\ [][NextCascade]_vars

\* ------------------------------------------------------- removeClient
\* A DELETE with the filter on trainer_id only.
RemovedLinksOfTrainer(uid, clientId) == {r \in BagToSet(clients) : r.trainer_id = uid}

\* The rows the DELETE reaches: .eq('trainer_id', trainer.id).eq('client_id', clientId)
RemovedLinks(uid, clientId) ==
  {r \in BagToSet(clients) : r.trainer_id = uid /\ r.client_id = clientId}

\* removeClient(clientId) of api.js: without a profile of the session's user
\* it returns false; otherwise one DELETE of the caller's link to clientId,
\* and true whether or not a row matched.
\* (deleted, the statement's row count, is not passed on to its caller.)
removeClient(p, uid, clientId) ==
  /\ ~InFlight(p)
  /\ IF uid \notin ProfileIds
     THEN /\ clients' = clients
          /\ result' = Response(p, "removeClient",
                                [kind |-> "data", data |-> FALSE, deleted |-> 0])
     ELSE LET gone == RemovedLinks(uid, clientId)
          IN /\ clients' = SetToBag(BagToSet(clients) \ gone)
             /\ result' = Response(p, "removeClient",
                                   [kind |-> "data", data |-> TRUE,
                                    deleted |-> Cardinality(gone)])
  /\ tx' = [tx EXCEPT ![p] = Idle]
  /\ UNCHANGED others
  /\ UNCHANGED <<auth_users, auth_users_seq, profiles, exercises, training_programs,
                 training_days, program_exercises, seqs>>

\* ------------------------------------------------------ logWorkoutSet
\* What logData may hold: the assignment logged and the number of the set,
\* the assignment alone, or a client_id of its own besides.
LogData ==
  [program_exercise_id : 1..MaxIds, set_number : {1}]
    \cup [program_exercise_id : 1..MaxIds]
    \cup [program_exercise_id : 1..MaxIds, set_number : {1}, client_id : Uuids]

\* A row in which the fields of logData win over the user id.
LogRowKeepsClient(id, uid, logData) == logData @@ [id |-> id, client_id |-> uid]

\* { ...logData, client_id: user.id }: the fields of logData, then client_id
\* set to the user id, whatever logData held there; id is the identity
\* column's next value.
LogRow(id, uid, logData) == [id |-> id, client_id |-> uid] @@ logData

\* The outcome of INSERT INTO workout_logs: NOT NULL on program_exercise_id,
\* client_id and set_number, the two foreign keys, and the policy's check
\* auth.uid() = client_id
WorkoutLogInsertState(uid, row) ==
  IF row.client_id = NULL \/ {"program_exercise_id", "set_number"} \ DOMAIN row /= {}
  THEN "23502"
  ELSE IF row.client_id /= uid THEN "42501"
  ELSE IF row.program_exercise_id \notin {e.id : e \in program_exercises}
          \/ row.client_id \notin ProfileIds
  THEN "23503"
  ELSE "00000"

\* logWorkoutSet(logData) of api.js: null without a user; otherwise one
\* INSERT of logData with client_id set to the user's id.
logWorkoutSet(p, uid, logData) ==
  /\ ~InFlight(p)
  /\ IF uid = NULL
     THEN /\ result' = Response(p, "logWorkoutSet", [kind |-> "null"])
          /\ UNCHANGED <<workout_logs, id_seq>>
     ELSE /\ id_seq["workout_logs"] < MaxRows
          /\ LET id == id_seq["workout_logs"] + 1
                 row == LogRow(id, uid, logData)
                 state == WorkoutLogInsertState(uid, row)
             IN /\ id_seq' = [id_seq EXCEPT !["workout_logs"] = id]
                /\ workout_logs' = IF state = "00000" THEN workout_logs \cup {row}
                                   ELSE workout_logs
                /\ result' = Response(p, "logWorkoutSet",
                                      IF state = "00000" THEN [kind |-> "data", inserted |-> row]
                                      ELSE Raised(state))
  /\ tx' = [tx EXCEPT ![p] = Idle]
  /\ UNCHANGED <<tables, seqs, scan, food_plans, food_days, meals, meal_items,
                 chat_messages, progress_photos>>

\* ------------------------------------------------------ sendMessage
ReceiverIds == Uuids \cup {NULL}
MessageTexts == {"ciao", NULL}

\* The row sendMessage submits
MessageRow(id, uid, receiverId, messageText) ==
  [id |-> id, sender_id |-> uid, receiver_id |-> receiverId, message_text |-> messageText]

\* The outcome of INSERT INTO chat_messages: NOT NULL on sender_id,
\* receiver_id and message_text, the policy's check auth.uid() = sender_id,
\* and the two foreign keys to profiles
ChatInsertState(uid, row) ==
  IF row.sender_id = NULL \/ row.receiver_id = NULL \/ row.message_text = NULL
  THEN "23502"
  ELSE IF row.sender_id /= uid THEN "42501"
  ELSE IF row.sender_id \notin ProfileIds \/ row.receiver_id \notin ProfileIds
  THEN "23503"
  ELSE "00000"

\* sendMessage(receiverId, messageText) of api.js: null without a user;
\* otherwise one INSERT with sender_id set to the user's id.
sendMessage(p, uid, receiverId, messageText) ==
  /\ ~InFlight(p)
  /\ IF uid = NULL
     THEN /\ result' = Response(p, "sendMessage", [kind |-> "null"])
          /\ UNCHANGED <<chat_messages, id_seq>>
     ELSE /\ id_seq["chat_messages"] < MaxRows
          /\ LET id == id_seq["chat_messages"] + 1
                 row == MessageRow(id, uid, receiverId, messageText)
                 state == ChatInsertState(uid, row)
             IN /\ id_seq' = [id_seq EXCEPT !["chat_messages"] = id]
                /\ chat_messages' = IF state = "00000" THEN chat_messages \cup {row}
                                    ELSE chat_messages
                /\ result' = Response(p, "sendMessage",
                                      IF state = "00000" THEN [kind |-> "data", inserted |-> row]
                                      ELSE Raised(state))
  /\ tx' = [tx EXCEPT ![p] = Idle]
  /\ UNCHANGED <<tables, seqs, scan, food_plans, food_days, meals, meal_items,
                 workout_logs, progress_photos>>

\* ------------------------------------------------------ saveProgressPhoto
PhotoUrls == {"p.jpg", NULL}
TakenOn == {"2024-05-01"}

\* The row saveProgressPhoto submits
PhotoRow(id, uid, photoUrl, takenOn, notes) ==
  [id |-> id, client_id |-> uid, photo_url |-> photoUrl, taken_on |-> takenOn,
   notes |-> notes]

\* The outcome of INSERT INTO progress_photos: NOT NULL on client_id,
\* photo_url and taken_on, the policy auth.uid() = client_id, and the foreign
\* key to profiles
PhotoInsertState(uid, row) ==
  IF row.client_id = NULL \/ row.photo_url = NULL \/ row.taken_on = NULL
  THEN "23502"
  ELSE IF row.client_id /= uid THEN "42501"
  ELSE IF row.client_id \notin ProfileIds THEN "23503"
  ELSE "00000"

\* saveProgressPhoto(photoUrl, takenOn, notes) of api.js: null without a
\* user; otherwise one INSERT with client_id set to the user's id.
saveProgressPhoto(p, uid, photoUrl, takenOn, notes) ==
  /\ ~InFlight(p)
  /\ IF uid = NULL
     THEN /\ result' = Response(p, "saveProgressPhoto", [kind |-> "null"])
          /\ UNCHANGED <<progress_photos, id_seq>>
     ELSE /\ id_seq["progress_photos"] < MaxRows
          /\ LET id == id_seq["progress_photos"] + 1
                 row == PhotoRow(id, uid, photoUrl, takenOn, notes)
                 state == PhotoInsertState(uid, row)
             IN /\ id_seq' = [id_seq EXCEPT !["progress_photos"] = id]
                /\ progress_photos' = IF state = "00000" THEN progress_photos \cup {row}
                                      ELSE progress_photos
                /\ result' = Response(p, "saveProgressPhoto",
                                      IF state = "00000" THEN [kind |-> "data", inserted |-> row]
                                      ELSE Raised(state))
  /\ tx' = [tx EXCEPT ![p] = Idle]
  /\ UNCHANGED <<tables, seqs, scan, food_plans, food_days, meals, meal_items,
                 workout_logs, chat_messages>>

\* ------------------------------------- all operations on the training data
\* One connection makes the calls that take several statements, the other
\* the requests of one statement. A program is created once, from the day
\* named Day 1 and the assignments of three sets; sets of the first
\* assignment are logged.
Rpc == "p1"
Rest == "p2"
DataAddClient ==
  \/ \E uid \in Callers, client_email \in Emails : AddClientCall(Rpc, uid, client_email)
  \/ AddClientInsert(Rpc)
  \/ AddClientReturn(Rpc)
DataCreateProgram ==
  \/ /\ training_programs_id_seq < MaxRows
     /\ \E uid \in Callers, client_id_in \in ClientIds :
          CreateCall(Rpc, uid, "Push Pull Legs", client_id_in)
  \/ \E day_data \in {d \in DayDescs : d.name = "Day 1"} : InsertDay(Rpc, day_data)
  \/ \E exercise_data \in {e \in ExerciseDescs : e.sets = "3"} : InsertExercise(Rpc, exercise_data)
  \/ CreateReturn(Rpc)
NextData ==
  \/ SignUpRoster
  \/ DataAddClient
  \/ DataCreateProgram
  \/ \E uid \in Callers, clientId \in Uuids : removeClient(Rest, uid, clientId)
  \/ \E uid \in Callers, logData \in {d \in LogData : d.program_exercise_id = 1} :
       logWorkoutSet(Rest, uid, logData)
  \/ \E uid \in Callers, programId \in 1..training_programs_id_seq :
       deleteProgram(Rest, uid, programId)
  \/ \E id \in Uuids : DeleteAccount(id)
SpecData == Init /\ [][NextData]_vars

\* ------------------------------------------------ rows written for a user
\* Accounts register, a program is created, and the session user of the
\* second connection logs sets of the first two assignment ids, sends
\* messages and saves photos.
LogWorkoutSet ==
  \E uid \in Callers, logData \in {d \in LogData : d.program_exercise_id <= 2} :
    logWorkoutSet(Rest, uid, logData)
SendMessage ==
  \E uid \in Callers, receiverId \in ReceiverIds, messageText \in MessageTexts :
    sendMessage(Rest, uid, receiverId, messageText)
SaveProgressPhoto ==
  \E uid \in Callers, photoUrl \in PhotoUrls, takenOn \in TakenOn :
    saveProgressPhoto(Rest, uid, photoUrl, takenOn, "")
NextWrites == SignUpRoster \/ DataCreateProgram \/ LogWorkoutSet \/ SendMessage \/ SaveProgressPhoto
SpecWrites == Init /\ [][NextWrites]_vars

\* ------------------------------------------------ food-scan function
\* Texts are sequences of lexemes: the code fence (three backticks), the word json,
\* white space, JSON punctuation, string and number literals, other words.
Fence == [t |-> "fence"]
JsonWord == [t |-> "json"]
WS == [t |-> "ws"]
Punct(c) == [t |-> c]
Str(s) == [t |-> "string", s |-> s]
Num(n) == [t |-> "number", n |-> n]
Word(w) == [t |-> "word", w |-> w]

\* JSON values: numbers, strings, arrays of scalars, objects of scalars
\* (members in insertion order, one per key).
NumberValue(n) == [kind |-> "number", n |-> n]
StringValue(s) == [kind |-> "string", s |-> s]
ArrayValue(items) == [kind |-> "array", items |-> items]
ObjectValue(members) == [kind |-> "object", members |-> members]
Member(k, v) == [k |-> k, v |-> v]

IsScalarLexeme(x) == x.t \in {"string", "number"}
ScalarOf(x) == IF x.t = "number" THEN NumberValue(x.n) ELSE StringValue(x.s)

\* text.replace(/(fence)json/g, empty)
RECURSIVE ReplaceFenceJson(_)
ReplaceFenceJson(text) ==
  IF text = <<>> THEN <<>>
  ELSE IF Len(text) >= 2 /\ text[1] = Fence /\ text[2] = JsonWord
       THEN ReplaceFenceJson(SubSeq(text, 3, Len(text)))
  ELSE <<Head(text)>> \o ReplaceFenceJson(Tail(text))

\* text.replace(/(fence)/g, empty)
ReplaceFence(text) == SelectSeq(text, LAMBDA x : x /= Fence)

\* text.trim()
RECURSIVE TrimStart(_)
TrimStart(text) ==
  IF text /= <<>> /\ Head(text) = WS THEN TrimStart(Tail(text)) ELSE text
RECURSIVE TrimEnd(_)
TrimEnd(text) ==
  IF text /= <<>> /\ text[Len(text)] = WS
  THEN TrimEnd(SubSeq(text, 1, Len(text) - 1)) ELSE text
Trim(text) == TrimEnd(TrimStart(text))

\* An object keeps one member per key: at the place of the key's first
\* occurrence, with the value of its last.
LastValue(members, k) ==
  LET last == CHOOSE i \in 1..Len(members) :
                /\ members[i].k = k
                /\ \A j \in (i + 1)..Len(members) : members[j].k /= k
  IN members[last].v
RECURSIVE DistinctKeys(_, _)
DistinctKeys(members, seen) ==
  IF members = <<>> THEN <<>>
  ELSE IF Head(members).k \in seen THEN DistinctKeys(Tail(members), seen)
  ELSE <<Head(members).k>> \o DistinctKeys(Tail(members), seen \cup {Head(members).k})
MakeObject(members) ==
  LET keys == DistinctKeys(members, {})
  IN ObjectValue([i \in 1..Len(keys) |-> Member(keys[i], LastValue(members, keys[i]))])

\* JSON.parse(text): the value, or a SyntaxError. White space between
\* lexemes is skipped.
SyntaxError == [ok |-> FALSE, error |-> "Unexpected token in JSON"]
Parsed(v) == [ok |-> TRUE, value |-> v]
\* s1 , s2 , ... sn: scalars at the odd places, commas at the even ones
IsItemList(toks) ==
  /\ Len(toks) % 2 = 1
  /\ \A i \in 1..Len(toks) :
       IF i % 2 = 1 THEN IsScalarLexeme(toks[i]) ELSE toks[i] = Punct(",")
\* "k1" : s1 , "k2" : s2 ...
IsMemberList(toks) ==
  /\ Len(toks) % 4 = 3
  /\ \A i \in 1..Len(toks) :
       CASE i % 4 = 1 -> toks[i].t = "string"
         [] i % 4 = 2 -> toks[i] = Punct(":")
         [] i % 4 = 3 -> IsScalarLexeme(toks[i])
         [] OTHER -> toks[i] = Punct(",")
JSONParse(text) ==
  LET toks == SelectSeq(text, LAMBDA x : x /= WS)
      n == Len(toks)
      inner == SubSeq(toks, 2, n - 1)
  IN IF n = 0 THEN SyntaxError
     ELSE IF n = 1 THEN
       (IF IsScalarLexeme(toks[1]) THEN Parsed(ScalarOf(toks[1])) ELSE SyntaxError)
     ELSE IF toks[1] = Punct("[") /\ toks[n] = Punct("]") THEN
       (IF inner = <<>> THEN Parsed(ArrayValue(<<>>))
        ELSE IF IsItemList(inner)
        THEN Parsed(ArrayValue([i \in 1..((Len(inner) + 1) \div 2) |-> ScalarOf(inner[2 * i - 1])]))
        ELSE SyntaxError)
     ELSE IF toks[1] = Punct("{") /\ toks[n] = Punct("}") THEN
       (IF inner = <<>> THEN Parsed(ObjectValue(<<>>))
        ELSE IF IsMemberList(inner)
        THEN Parsed(MakeObject([i \in 1..((Len(inner) + 1) \div 4) |->
                                  Member(inner[4 * i - 3].s, ScalarOf(inner[4 * i - 1]))]))
        ELSE SyntaxError)
     ELSE SyntaxError

\* JSON.stringify(value): the text, without white space
ScalarText(v) == IF v.kind = "number" THEN Num(v.n) ELSE Str(v.s)
RECURSIVE ItemsText(_)
ItemsText(items) ==
  IF items = <<>> THEN <<>>
  ELSE <<ScalarText(Head(items))>> \o
       (IF Tail(items) = <<>> THEN <<>> ELSE <<Punct(",")>> \o ItemsText(Tail(items)))
RECURSIVE MembersText(_)
MembersText(members) ==
  IF members = <<>> THEN <<>>
  ELSE <<Str(Head(members).k), Punct(":"), ScalarText(Head(members).v)>> \o
       (IF Tail(members) = <<>> THEN <<>> ELSE <<Punct(",")>> \o MembersText(Tail(members)))
JSONStringify(v) ==
  CASE v.kind = "object" -> <<Punct("{")>> \o MembersText(v.members) \o <<Punct("}")>>
    [] v.kind = "array" -> <<Punct("[")>> \o ItemsText(v.items) \o <<Punct("]")>>
    [] OTHER -> <<ScalarText(v)>>

\* new Response(body, { status }): the status defaults to 200
HttpResponse(status, body) == [status |-> status, body |-> body]
\* the catch block: { error: error.message } with status 400
ErrorResponse(message) ==
  HttpResponse(400, JSONStringify(ObjectValue(<<Member("error", StringValue(message))>>)))

MsgNoImage == "No image data provided."
\* A message without the upstream body.
MsgGeminiStatusOnly(statusText, errorBody) == "Gemini API error: " \o statusText

\* the template literal of the upstream error: statusText, then errorBody
MsgGemini(statusText, errorBody) == "Gemini API error: " \o statusText \o " - " \o errorBody
\* messages of the TypeErrors the runtime throws
MsgDestructure == "Cannot destructure property image of null"
MsgNoCandidate == "Cannot read properties of undefined"
MsgFetchFailed == "error sending request"

\* Requests: the method, and the body as req.json() reads it: not JSON, the
\* JSON null, or an object whose image field is absent, empty or a picture.
ImageValues == {"", "aW1hZ2U="}
RequestBodies ==
  {[kind |-> "not_json"], [kind |-> "null"], [kind |-> "object", has_image |-> FALSE]} \cup
  {[kind |-> "object", has_image |-> TRUE, image |-> i] : i \in ImageValues}
Requests == [method : {"POST", "OPTIONS"}, body : RequestBodies]

\* A test that lets the empty string through.
NoImageOnlyAbsent(body) == ~body.has_image

\* !image
NoImage(body) == ~body.has_image \/ body.image = ""

\* The four keys the prompt asks for.
NutritionKeys == <<"calories_kcal", "protein_g", "carb_g", "fat_g">>

\* Documents the model may write.
Estimate(c, p) ==
  <<Punct("{"), Str("calories_kcal"), Punct(":"), Num(c), Punct(","),
    Str("protein_g"), Punct(":"), Num(p), Punct(","),
    Str("carb_g"), Punct(":"), Num(30), Punct(","),
    Str("fat_g"), Punct(":"), Num(8), Punct("}")>>
ModelDocs ==
  { Estimate(250, 10),
    <<Punct("{"), WS, Str("calories_kcal"), Punct(":"), WS, Num(250), WS, Punct("}")>>,
    <<Punct("{"), Str("calories_kcal"), Punct(":"), Str("about 250"), Punct(","),
      Str("protein_g"), Punct(":"), Num(10), Punct(","),
      Str("carb_g"), Punct(":"), Num(30), Punct(","),
      Str("fat_g"), Punct(":"), Num(8), Punct("}")>>,
    Estimate(250, 10) \o <<WS>> \o Estimate(400, 20),
    SubSeq(Estimate(250, 10), 1, 16) \o
      <<Punct(","), Str("note"), Punct(":"), Str("rice"), Punct("}")>>,
    <<Punct("{"), Str("protein_g"), Punct(":"), Num(1), Punct(","),
      Str("protein_g"), Punct(":"), Num(2), Punct("}")>>,
    <<Punct("["), Num(250), Punct(","), Num(10), Punct("]")>>,
    <<Num(250)>>,
    <<Word("Sorry")>>,
    <<Punct("{"), Str("calories_kcal"), Punct(":")>>,
    <<>> }
TextBefore == {<<>>, <<Fence, JsonWord>>, <<Fence, JsonWord, WS>>, <<Fence, WS>>, <<WS>>, <<JsonWord>>}
TextAfter == {<<>>, <<Fence>>, <<WS, Fence>>, <<WS, Fence, WS>>, <<WS>>}
ModelTexts == {b \o d \o a : b \in TextBefore, d \in ModelDocs, a \in TextAfter}

\* What fetch gives: a rejection, a response that is not OK, or an OK
\* response whose body is not JSON, has no candidate, or carries a text.
UpstreamReplies ==
  {[kind |-> "rejected"]} \cup
  {[kind |-> "not_ok", statusText |-> st, body |-> b] :
     st \in {"Too Many Requests", ""}, b \in {"quota exceeded", ""}} \cup
  {[kind |-> "not_json"], [kind |-> "no_candidates"]} \cup
  {[kind |-> "text", text |-> t] : t \in ModelTexts}

\* serve(): from the request to the fetch, or to the response when it ends before.
ScanRequest(req) ==
  /\ scan.pc \in {"idle", "responded"}
  /\ LET served == [req |-> req, fetches |-> 0]
     IN scan' =
          IF req.method = "OPTIONS"
          THEN served @@ [pc |-> "responded", response |-> HttpResponse(200, <<Word("ok")>>)]
          ELSE IF req.body.kind = "not_json"
          THEN served @@ [pc |-> "responded", response |-> ErrorResponse(SyntaxError.error)]
          ELSE IF req.body.kind = "null"
          THEN served @@ [pc |-> "responded", response |-> ErrorResponse(MsgDestructure)]
          ELSE IF NoImage(req.body)
          THEN served @@ [pc |-> "responded", response |-> ErrorResponse(MsgNoImage)]
          ELSE [req |-> req, fetches |-> 1, pc |-> "fetch"]
  /\ UNCHANGED <<tables, seqs, tx, result, workout_logs, food_plans, food_days, meals,
                 meal_items, chat_messages, progress_photos, id_seq>>

\* The text as it came, trimmed.
ExtractJsonKeepFences(text) == Trim(text)

\* const jsonString = ...; JSON.parse(jsonString)
ExtractJson(text) == Trim(ReplaceFence(ReplaceFenceJson(text)))

\* serve(): from the fetch's outcome to the response.
ScanUpstream(reply) ==
  /\ scan.pc = "fetch"
  /\ LET nutritionData == JSONParse(ExtractJson(reply.text))
         response ==
           CASE reply.kind = "rejected" -> ErrorResponse(MsgFetchFailed)
             [] reply.kind = "not_ok" -> ErrorResponse(MsgGemini(reply.statusText, reply.body))
             [] reply.kind = "not_json" -> ErrorResponse(SyntaxError.error)
             [] reply.kind = "no_candidates" -> ErrorResponse(MsgNoCandidate)
             [] OTHER ->
                  IF nutritionData.ok
                  THEN HttpResponse(200, JSONStringify(nutritionData.value))
                  ELSE ErrorResponse(nutritionData.error)
     IN scan' = [req |-> scan.req, fetches |-> scan.fetches, pc |-> "responded",
                 reply |-> reply, response |-> response]
  /\ UNCHANGED <<tables, seqs, tx, result, workout_logs, food_plans, food_days, meals,
                 meal_items, chat_messages, progress_photos, id_seq>>

NextScan ==
  \/ \E req \in Requests : ScanRequest(req)
  \/ \E reply \in UpstreamReplies : ScanUpstream(reply)
SpecScan == Init /\ [][NextScan]_vars

\* ===================================================== properties
Ids(rows) == {r.id : r \in rows}

\* The step hands connection p the response of a create_full_program call.
CreateReturns(p) == result'.to = p /\ result'.op = "create_full_program"
CreateSucceeds(p) == CreateReturns(p) /\ result'.rsp.kind = "data"
CreateFails(p) == CreateReturns(p) /\ result'.rsp.kind = "error"
\* The step is one of p's call that does not end it.
CreateContinues(p) == tx'[p] /= tx[p] /\ InFlight(p)' /\ tx'[p].op = "create_full_program"

\* Row e was made from the assignment descriptor x.
FromExerciseDesc(e, x) ==
  /\ e.exercise_id = CastInt(x.exercise_id)
  /\ e.sets = CastInt(x.sets)
  /\ e.reps = x.reps
  /\ e.rest_period_seconds = CastInt(x.rest_period_seconds)
  /\ e.exercise_order = CastInt(x.exercise_order)
  /\ e.notes = x.notes

\* Row d was made from the day descriptor y, and the assignment rows under it
\* are those of y's descriptors, one row each.
FromDayDesc(d, y, assignments) ==
  /\ d.name = y.name
  /\ d.day_order = CastInt(y.day_order)
  /\ LET under == {e \in assignments : e.day_id = d.id}
     IN /\ Cardinality(under) = Len(y.exercises)
        /\ \A j \in 1..Len(y.exercises) : \E e \in under : FromExerciseDesc(e, y.exercises[j])

RECURSIVE SumOfLens(_)
SumOfLens(days) ==
  IF days = <<>> THEN 0 ELSE Len(Head(days).exercises) + SumOfLens(Tail(days))

\* C1: a successful create_full_program call with N day descriptors, day i
\* carrying M_i assignment descriptors, adds exactly one program row (the
\* caller's, for the client passed in, under the id it returns), exactly N
\* day rows of that program and exactly the sum of the M_i assignment rows,
\* each under the day row made from its own day descriptor, with day_order,
\* exercise_order and reps as in the input; it changes no other row.
C1_TreePersisted ==
  [][\A p \in Procs : CreateSucceeds(p) =>
       LET days == tx[p].days
           N == Len(days)
           newP == training_programs' \ training_programs
           newD == training_days' \ training_days
           newE == program_exercises' \ program_exercises
       IN /\ result'.rsp.data.status = "success"
          /\ training_programs \subseteq training_programs'
          /\ training_days \subseteq training_days'
          /\ program_exercises \subseteq program_exercises'
          /\ newP = {ProgramRow(result'.rsp.data.program_id, tx[p].program_name,
                                tx[p].uid, tx[p].client_id_in)}
          /\ result'.rsp.data.program_id \notin Ids(training_programs)
          /\ Cardinality(newD) = N
          /\ \A d \in newD : d.program_id = result'.rsp.data.program_id
          /\ Cardinality(Ids(newD)) = N
          /\ Ids(newD) \cap Ids(training_days) = {}
          /\ Cardinality(newE) = SumOfLens(days)
          /\ \A e \in newE : e.day_id \in Ids(newD)
          /\ \E f \in [1..N -> newD] :
               /\ \A i, k \in 1..N : i /= k => f[i] /= f[k]
               /\ \A i \in 1..N : FromDayDesc(f[i], days[i], newE)
               /\ \A i, k \in 1..N : i < k => f[i].id < f[k].id
  ]_vars

\* C1's case: a call returned success for a program that now has two day
\* rows, one with an assignment row and one with none.
C1_Witness ==
  /\ result.op = "create_full_program"
  /\ result.rsp.kind = "data"
  /\ LET days == DaysOfPrograms({result.rsp.data.program_id})
     IN /\ Cardinality(days) = 2
        /\ \E d1, d2 \in days :
             /\ d1.day_order /= d2.day_order
             /\ Cardinality(ExercisesOfDays({d1.id})) = 1
             /\ ExercisesOfDays({d2.id}) = {}

\* The rows this call of p has inserted so far are not in the tables.
NoRowOfCall(p) ==
  LET pid == IF InFlight(p) THEN tx[p].new_program_id ELSE training_programs_id_seq'
      dids == IF InFlight(p) THEN Ids(tx[p].w_days) ELSE {}
  IN /\ pid \notin Ids(training_programs')
     /\ \A d \in training_days' : d.program_id /= pid /\ d.id \notin dids
     /\ \A e \in program_exercises' : e.day_id \notin dids

\* C2: when an insert of a create_full_program call fails, at whatever level,
\* the call has left training_programs, training_days and program_exercises
\* as they were: none of its steps changed them, and no program, day or
\* assignment row of the call is in them.
C2_FailureRollsBack ==
  [][\A p \in Procs :
       /\ (CreateContinues(p) \/ CreateFails(p)) =>
            /\ training_programs' = training_programs
            /\ training_days' = training_days
            /\ program_exercises' = program_exercises
       /\ CreateFails(p) => NoRowOfCall(p) /\ ~InFlight(p)'
  ]_vars

\* C2's case: a call failed on the uniqueness of its second assignment, after
\* it had inserted a program, a day and an assignment; no day or assignment
\* row is in the tables.
C2_Witness ==
  /\ result.op = "create_full_program"
  /\ result.rsp.kind = "error"
  /\ result.rsp.sqlstate = "23505"
  /\ program_exercises_id_seq = 2
  /\ training_days = {}
  /\ program_exercises = {}

\* C3: what the other connections can see never holds part of a tree: a day
\* row appears only in the step its program row appears, an assignment row
\* only in the step its day row appears, a row disappears only with its
\* parent, and what getAssignedWorkoutProgram hands back is never the program
\* of a call in progress.
C3_NoPartialTree ==
  [][/\ \A d \in training_days' \ training_days :
          d.program_id \in Ids(training_programs') \ Ids(training_programs)
     /\ \A e \in program_exercises' \ program_exercises :
          e.day_id \in Ids(training_days') \ Ids(training_days)
     /\ \A r \in training_programs' \ training_programs :
          \A q \in Procs : InFlight(q)' /\ tx'[q].op = "create_full_program"
                             => tx'[q].new_program_id /= r.id
     /\ \A d \in training_days \ training_days' :
          d.program_id \notin Ids(training_programs')
     /\ \A e \in program_exercises \ program_exercises' :
          e.day_id \notin Ids(training_days')
     /\ result'.op = "getAssignedWorkoutProgram" =>
          \A q \in Procs : InFlight(q)' /\ tx'[q].op = "create_full_program"
                             => tx'[q].new_program_id /= result'.rsp.data.id
  ]_vars

\* C3's case: a connection is handed a program by getAssignedWorkoutProgram
\* while a create_full_program call of another connection, for the same
\* client, has inserted its program row and a day row and has not returned.
C3_Witness ==
  /\ result.op = "getAssignedWorkoutProgram"
  /\ result.rsp.data /= NullData
  /\ \E q \in Procs \ {result.to} :
       /\ InFlight(q)
       /\ tx[q].op = "create_full_program"
       /\ tx[q].w_days /= {}
       /\ tx[q].client_id_in = result.rsp.data.client_id

\* C4 (as claimed): a create_full_program call that fails hands its caller a
\* tagged result, status error with a message, never a raised error.
C4_FailureIsTaggedResult ==
  result.op = "create_full_program" =>
    /\ result.rsp.kind = "data"
    /\ createProgram(result.rsp).kind = "data"
    /\ result.rsp.data.status \in {"success", "error"}

\* C9: a step that deletes program rows deletes with them every day row of
\* those programs and every assignment row under those days, and no other
\* day or assignment row.
C9_DeleteCascades ==
  [][result'.op = "deleteProgram" =>
       LET gone == training_programs \ training_programs'
           goneDays == {d \in training_days : d.program_id \in Ids(gone)}
       IN /\ training_programs' \subseteq training_programs
          /\ Cardinality(gone) = result'.rsp.deleted
          /\ training_days' = training_days \ goneDays
          /\ program_exercises' =
               {e \in program_exercises : e.day_id \notin Ids(goneDays)}
  ]_vars

\* C9's case: deleteProgram deleted one of two programs that each had a day
\* row; the other program and its day row are still there.
C9_Witness ==
  /\ result.op = "deleteProgram"
  /\ result.rsp.deleted = 1
  /\ training_programs_id_seq = 2
  /\ training_days_id_seq = 2
  /\ Cardinality(training_programs) = 1
  /\ Cardinality(training_days) = 1
  /\ \A d \in training_days : d.program_id \in Ids(training_programs)

\* The step hands connection p the response of an add_client_by_email call.
AddClientReturns(p) == result'.to = p /\ result'.op = "add_client_by_email"
\* The step begins an add_client_by_email call of p.
AddClientBegins(p) ==
  ~InFlight(p) /\ InFlight(p)' /\ tx'[p].op = "add_client_by_email"

\* C5: a call by a signed-in caller with the email of a client-role profile
\* returns, when the link is not yet in clients, the success outcome with
\* that client's id and leaves exactly one row of the pair; when the link is
\* already there (a second call in sequence), it returns the already-added
\* outcome and leaves clients unchanged.
C5_SecondAddAlreadyAdded ==
  [][\A p \in Procs :
       AddClientReturns(p) /\ tx[p].uid /= NULL /\ tx[p].client_record.role = "client" =>
         LET link == ClientLink(tx[p].uid, tx[p].client_record.id)
         IN /\ result'.rsp.kind = "data"
            /\ ~BagIn(link, clients) =>
                 /\ result'.rsp.data = AddedObject(tx[p].client_record.id)
                 /\ CopiesIn(link, clients') = 1
                 /\ clients' = clients (+) SetToBag({link})
            /\ BagIn(link, clients) =>
                 /\ result'.rsp.data = ErrorObject(MsgAlready)
                 /\ clients' = clients
            /\ tx[p].pre_link => BagIn(link, clients)
  ]_vars

\* C5's case: the one connection that has made calls is handed the
\* already-added outcome, for a link that was there when the call began, and
\* clients holds that one row.
C5_Witness ==
  /\ result.op = "add_client_by_email"
  /\ result.rsp.data = ErrorObject(MsgAlready)
  /\ tx[result.to].pre_link
  /\ \A q \in Procs \ {result.to} : tx[q] = Idle
  /\ clients = SetToBag({ClientLink(tx[result.to].uid, tx[result.to].client_record.id)})

\* Both connections' calls are for the pair (t, c), have returned, and each
\* began before the link was committed.
BothAdded(t, c) ==
  \A p \in Procs :
    /\ tx[p].op = "add_client_by_email"
    /\ tx[p].pc = "returned"
    /\ tx[p].uid = t
    /\ tx[p].client_record = [id |-> c, role |-> "client"]
    /\ ~tx[p].pre_link

\* C6: two calls by one caller for one client, each begun before the link was
\* committed, end with one success outcome and one already-added outcome, in
\* either order, and with exactly one row of the pair in clients.
C6_ConcurrentAddOneWins ==
  [][\A t, c \in Uuids :
       (\E p \in Procs : AddClientReturns(p)) /\ BothAdded(t, c)' =>
         /\ {tx'[p].ret : p \in Procs} = {AddedObject(c), ErrorObject(MsgAlready)}
         /\ \E p, q \in Procs : /\ tx'[p].ret = AddedObject(c)
                                /\ tx'[q].ret = ErrorObject(MsgAlready)
         /\ CopiesIn(ClientLink(t, c), clients') = 1
  ]_vars

\* C6's case: both calls of the pair have returned, the last response being
\* the already-added outcome.
C6_Witness ==
  /\ \E t, c \in Uuids : BothAdded(t, c)
  /\ result.op = "add_client_by_email"
  /\ result.rsp.data = ErrorObject(MsgAlready)

\* C7: a call with an email that matches no profile ends in the no-such-user
\* outcome, a call with the email of a profile whose role is not client (the
\* caller's own trainer profile included) in the not-a-client outcome; such a
\* call inserts nothing, and clients is unchanged when it returns.
C7_NotFoundNotClient ==
  [][\A p \in Procs :
       /\ AddClientBegins(p) =>
            LET found == ProfileByEmail(tx'[p].client_email)
            IN /\ found = {} =>
                    tx'[p].pc = "commit" /\ tx'[p].ret = ErrorObject(MsgNotFound)
               /\ (found /= {} /\ \A r \in found : r.role /= "client") =>
                    tx'[p].pc = "commit" /\ tx'[p].ret = ErrorObject(MsgNotClient)
               /\ tx'[p].w_clients = EmptyBag
       /\ (AddClientReturns(p) /\
           tx[p].ret \in {ErrorObject(MsgNotFound), ErrorObject(MsgNotClient)}) =>
            /\ result'.rsp = Json(tx[p].ret)
            /\ clients' = clients
            /\ tx[p].w_clients = EmptyBag
            /\ tx[p].ret = ErrorObject(MsgNotFound) <=> RecordIsNull(tx[p].client_record)
  ]_vars

\* C7's case: a trainer who has a client is handed the not-a-client outcome
\* for their own email, after a signed-in caller on the other connection was
\* handed the no-such-user outcome.
C7_Witness ==
  /\ result.op = "add_client_by_email"
  /\ result.rsp.data = ErrorObject(MsgNotClient)
  /\ tx[result.to].client_record.id = tx[result.to].uid
  /\ clients /= EmptyBag
  /\ \E q \in Procs \ {result.to} :
       /\ tx[q].pc = "returned"
       /\ tx[q].uid /= NULL
       /\ tx[q].ret = ErrorObject(MsgNotFound)

\* The five outcomes of add_client_by_email.
AddClientOutcomes ==
  {AddedObject(id) : id \in Uuids} \cup
  {ErrorObject(m) : m \in {MsgAlready, MsgNotFound, MsgNotClient, MsgUnexpected}}

\* C8: every add_client_by_email call hands its caller a value, one of the
\* five outcomes, never an error, and addClient passes it on; a call without
\* an identity for a client's email gets the unexpected-error outcome.
C8_AlwaysTaggedResult ==
  result.op = "add_client_by_email" =>
    /\ result.rsp.kind = "data"
    /\ result.rsp.data \in AddClientOutcomes
    /\ addClient(result.rsp) = result.rsp
    /\ (tx[result.to].uid = NULL /\ tx[result.to].client_record.role = "client") =>
          result.rsp.data = ErrorObject(MsgUnexpected)
    /\ result.rsp.data = ErrorObject(MsgUnexpected) => tx[result.to].uid = NULL

\* C8's case: a call without an identity, for a client's email, was handed the
\* unexpected-error outcome.
C8_Witness ==
  /\ result.op = "add_client_by_email"
  /\ tx[result.to].uid = NULL
  /\ tx[result.to].client_record.role = "client"
  /\ result.rsp.data = ErrorObject(MsgUnexpected)

\* Every account has exactly one profile row with its id; that row has its
\* email and the role of its metadata, which is trainer or client.
OneProfilePerAccount ==
  /\ \A a \in auth_users :
       /\ Cardinality({r \in profiles : r.id = a.id}) = 1
       /\ \A r \in profiles : r.id = a.id =>
            r.email = a.email /\ r.role = a.role /\ r.role \in {"trainer", "client"}
       /\ a.role \in {"trainer", "client"}
  /\ Cardinality(profiles) = Cardinality(auth_users)

\* C10: after any sequence of registrations every account has exactly one
\* profile row, with the account's id and email and a role of trainer or
\* client; and a registration whose metadata role is absent or another value
\* adds no account and no profile.
C10_OneProfilePerAccount ==
  /\ []OneProfilePerAccount
  /\ [][\A role \in MetaRoles \ {"trainer", "client"} :
          (\E email \in Emails : handle_new_user(email, role)) =>
             auth_users' = auth_users /\ profiles' = profiles
       ]_vars

\* C10's case: two registrations succeeded, one of each role.
C10_Witness ==
  /\ Cardinality(auth_users) = 2
  /\ {a.role : a \in auth_users} = {"trainer", "client"}
  /\ {r.id : r \in profiles} = {a.id : a \in auth_users}

\* The handler has answered a POST.
ScanAnswered == scan.pc = "responded" /\ scan.req.method = "POST"
\* The lexemes of {"error": message}
ErrorBody(message) == <<Punct("{"), Str("error"), Punct(":"), Str(message), Punct("}")>>
\* The body is {"error": message} for some message.
IsErrorBody(body) ==
  /\ Len(body) = 5
  /\ body[4].t = "string"
  /\ body = ErrorBody(body[4].s)

\* C11: a POST whose body is an object with no image field, or with the
\* empty string as its image, is answered with status 400 and the body
\* {error: message}, and no request to the upstream API was made for it.
C11_NoImageIsClientError ==
  (/\ scan.pc /= "idle"
   /\ scan.req.method = "POST"
   /\ scan.req.body.kind = "object"
   /\ (~scan.req.body.has_image \/ scan.req.body.image = ""))
  => /\ scan.pc = "responded"
     /\ scan.fetches = 0
     /\ scan.response.status = 400
     /\ scan.response.body = ErrorBody("No image data provided.")

\* C11's case: a POST with the empty string as its image was answered.
C11_Witness ==
  /\ ScanAnswered
  /\ scan.req.body.kind = "object"
  /\ scan.req.body.has_image
  /\ scan.req.body.image = ""
  /\ scan.response.status = 400

\* C12: a request that got as far as the upstream call and then failed (the
\* fetch rejected, the upstream response was not OK, its body was not JSON
\* or held no candidate, or the model's text did not parse) is answered with
\* status 400 and the body {error: message}; an upstream response that was
\* not OK gives a message with the upstream status text and body; every such
\* request is answered with status 200 or 400.
C12_FailureIsClientError ==
  (ScanAnswered /\ scan.fetches = 1) =>
    /\ scan.response.status \in {200, 400}
    /\ scan.response.status = 400 => IsErrorBody(scan.response.body)
    /\ scan.reply.kind /= "text" => scan.response.status = 400
    /\ scan.reply.kind = "not_ok" =>
         scan.response.body =
           ErrorBody("Gemini API error: " \o scan.reply.statusText \o " - " \o scan.reply.body)
    /\ (scan.reply.kind = "text" /\
        ~JSONParse(SelectSeq(scan.reply.text, LAMBDA x : x \notin {Fence, JsonWord})).ok)
         => scan.response.status = 400

\* C12's case: the upstream API answered 429 with a body, and the handler
\* answered 400.
C12_Witness ==
  /\ ScanAnswered
  /\ scan.fetches = 1
  /\ scan.reply.kind = "not_ok"
  /\ scan.reply.statusText = "Too Many Requests"
  /\ scan.reply.body = "quota exceeded"
  /\ scan.response.status = 400

\* The value is a mapping with exactly the four fields, each a number.
IsNutritionData(v) ==
  /\ v.kind = "object"
  /\ Len(v.members) = 4
  /\ {v.members[i].k : i \in 1..4} = {NutritionKeys[i] : i \in 1..4}
  /\ \A i \in 1..4 : v.members[i].v.kind = "number"

\* C13 (as claimed): every 200 response to a POST is a mapping with exactly
\* the four fields calories_kcal, protein_g, carb_g and fat_g, each numeric.
C13_SuccessIsFourNumbers ==
  (ScanAnswered /\ scan.response.status = 200) =>
    /\ JSONParse(scan.response.body).ok
    /\ IsNutritionData(JSONParse(scan.response.body).value)

\* The model's text is a document between a json fence and a closing fence.
IsFenced(text, doc) ==
  \E b \in {<<Fence, JsonWord>>, <<Fence, JsonWord, WS>>}, a \in {<<Fence>>, <<WS, Fence>>} :
    text = b \o doc \o a

\* C14: when the model's text is a JSON document between a json fence and a
\* closing fence, the handler answers 200 with the value of that document:
\* the fences are gone before the text is parsed.
C14_FencedReplyParsed ==
  \A doc \in ModelDocs :
    (/\ ScanAnswered
     /\ scan.fetches = 1
     /\ scan.reply.kind = "text"
     /\ IsFenced(scan.reply.text, doc)
     /\ JSONParse(doc).ok)
    => /\ scan.response.status = 200
       /\ JSONParse(scan.response.body) = JSONParse(doc)

\* C14's case: the estimate between a json fence and a closing fence, on
\* lines of their own, was answered with the estimate.
C14_Witness ==
  /\ ScanAnswered
  /\ scan.fetches = 1
  /\ scan.reply.kind = "text"
  /\ scan.reply.text = <<Fence, JsonWord, WS>> \o Estimate(250, 10) \o <<WS, Fence>>
  /\ scan.response = HttpResponse(200, Estimate(250, 10))

\* The rows of a table that name one of the profiles in one of the columns.
Naming(rows, columns, gone) == {r \in rows : \E c \in columns : r[c] \in gone}
\* The rows of a table whose parent, by the column, is one of the parents.
Under(rows, column, parents) == {r \in rows : \E x \in parents : r[column] = x.id}

\* C15: a step that deletes profiles removes every link, program, food plan,
\* chat message, progress photo and workout log that names one of them, with
\* the days and assignments of these programs, the workout logs of these
\* assignments, and the days, meals and meal items of these food plans; no
\* row naming a deleted profile remains, and every other row stays.
C15_ProfileDeletionCascades ==
  [][ProfileIds' /= ProfileIds /\ ProfileIds' \subseteq ProfileIds =>
       LET gone == ProfileIds \ ProfileIds'
           programs == Naming(training_programs, {"trainer_id", "client_id"}, gone)
           days == Under(training_days, "program_id", programs)
           assignments == Under(program_exercises, "day_id", days)
           plans == Naming(food_plans, {"trainer_id", "client_id"}, gone)
           fdays == Under(food_days, "plan_id", plans)
           fmeals == Under(meals, "day_id", fdays)
       IN /\ BagToSet(clients') =
               BagToSet(clients) \ Naming(BagToSet(clients), {"trainer_id", "client_id"}, gone)
          /\ \A r \in BagToSet(clients') : CopiesIn(r, clients') = CopiesIn(r, clients)
          /\ training_programs' = training_programs \ programs
          /\ training_days' = training_days \ days
          /\ program_exercises' = program_exercises \ assignments
          /\ workout_logs' = {l \in workout_logs : l.client_id \notin gone /\ l \notin
                                Under(workout_logs, "program_exercise_id", assignments)}
          /\ food_plans' = food_plans \ plans
          /\ food_days' = food_days \ fdays
          /\ meals' = meals \ fmeals
          /\ meal_items' = meal_items \ Under(meal_items, "meal_id", fmeals)
          /\ chat_messages' = chat_messages \ Naming(chat_messages, {"sender_id", "receiver_id"}, gone)
          /\ progress_photos' = progress_photos \ Naming(progress_photos, {"client_id"}, gone)
          /\ \A r \in BagToSet(clients') \cup training_programs' \cup food_plans' :
               r.trainer_id \notin gone /\ r.client_id \notin gone
          /\ \A r \in chat_messages' : r.sender_id \notin gone /\ r.receiver_id \notin gone
          /\ \A r \in progress_photos' \cup workout_logs' : r.client_id \notin gone
          /\ \A d \in training_days' : d.program_id \in {r.id : r \in training_programs'}
          /\ \A e \in program_exercises' : e.day_id \in {d.id : d \in training_days'}
          /\ \A l \in workout_logs' : l.program_exercise_id \in {e.id : e \in program_exercises'}
          /\ \A d \in food_days' : d.plan_id \in {r.id : r \in food_plans'}
          /\ \A m \in meals' : m.day_id \in {d.id : d \in food_days'}
          /\ \A i \in meal_items' : i.meal_id \in {m.id : m \in meals'}
  ]_vars

\* C15's case: every table has had a row, one profile is gone with its
\* account, and of all the rows only a progress photo of the profile that is
\* left remains.
C15_Witness ==
  /\ Cardinality(auth_users) = 1
  /\ auth_users_seq = 2
  /\ \A t \in SeqTables : id_seq[t] = 1
  /\ training_programs_id_seq = 1 /\ training_days_id_seq = 1 /\ program_exercises_id_seq = 1
  /\ clients = EmptyBag
  /\ training_programs = {} /\ training_days = {} /\ program_exercises = {}
  /\ workout_logs = {} /\ chat_messages = {}
  /\ food_plans = {} /\ food_days = {} /\ meals = {} /\ meal_items = {}
  /\ \E r \in progress_photos : r.client_id \in ProfileIds

\* ------------------------------------------------ references
\* Every value of column in rows is the key of a row of the referenced table.
RefersTo(rows, column, keys) == \A r \in rows : r[column] \in keys

\* C16: in every state reached by registrations, add-client calls,
\* remove-client calls, composite program creations, workout-log inserts,
\* program deletions and account deletions, every link names two profiles,
\* every program names two profiles, every day names a program, every
\* assignment names a day and an exercise, and every workout log names an
\* assignment and a profile.
C16_ReferencesResolve ==
  /\ RefersTo(BagToSet(clients), "trainer_id", ProfileIds)
  /\ RefersTo(BagToSet(clients), "client_id", ProfileIds)
  /\ RefersTo(training_programs, "trainer_id", ProfileIds)
  /\ RefersTo(training_programs, "client_id", ProfileIds)
  /\ RefersTo(training_days, "program_id", Ids(training_programs))
  /\ RefersTo(program_exercises, "day_id", Ids(training_days))
  /\ RefersTo(program_exercises, "exercise_id", exercises)
  /\ RefersTo(workout_logs, "program_exercise_id", Ids(program_exercises))
  /\ RefersTo(workout_logs, "client_id", ProfileIds)

\* C16's case: one of two registered accounts has been deleted, and the
\* other still has a link, a program with a day and an assignment, and a
\* workout log.
C16_Witness ==
  /\ auth_users_seq = 2
  /\ Cardinality(auth_users) = 1
  /\ clients /= EmptyBag
  /\ training_programs /= {}
  /\ training_days /= {}
  /\ program_exercises /= {}
  /\ workout_logs /= {}

\* ------------------------------------------------ attribution
\* C17: every program row that appears was created by a create_full_program
\* call that returns success in that step, its trainer_id is the identity of
\* the caller of that call, which is not NULL, and its client_id is the
\* client id passed to the call; a call that returns success leaves such a
\* row under the id it reports.
C17_ProgramAttributedToCaller ==
  [][/\ \A r \in training_programs' \ training_programs :
          \E p \in Procs :
            /\ CreateSucceeds(p)
            /\ r.id = result'.rsp.data.program_id
            /\ tx[p].uid /= NULL
            /\ r.trainer_id = tx[p].uid
            /\ r.client_id = tx[p].client_id_in
     /\ \A p \in Procs : CreateSucceeds(p) =>
          \E r \in training_programs' \ training_programs :
            /\ r.id = result'.rsp.data.program_id
            /\ r.trainer_id = tx[p].uid
            /\ r.client_id = tx[p].client_id_in
  ]_vars

\* C17's case: a call by one account for another account as the client has
\* returned success, and the program it reports has the caller as trainer and
\* the other account as client.
C17_Witness ==
  /\ result.op = "create_full_program"
  /\ result.rsp.kind = "data"
  /\ \E r \in training_programs :
       /\ r.id = result.rsp.data.program_id
       /\ r.trainer_id = UuidOf(1)
       /\ r.client_id = UuidOf(2)

\* ------------------------------------------------ unique assignments
\* Descriptor x repeats the exercise and the position of one of the
\* descriptors in xs.
RepeatsIn(x, xs) ==
  \E j \in 1..Len(xs) :
    /\ xs[j].exercise_id = x.exercise_id
    /\ xs[j].exercise_order = x.exercise_order

\* The indices of the day descriptors in days whose day_order is o.
DaysAt(days, o) == {i \in 1..Len(days) : days[i].day_order = o}

TwoDaysOneOrder ==
  /\ result.op = "create_full_program"
  /\ result.rsp.kind = "data"
  /\ \E d1, d2 \in DaysOfPrograms({result.rsp.data.program_id}) :
       d1 /= d2 /\ d1.day_order = d2.day_order

\* ------------------------------------------------ roles of a link
\* The roles of the profiles whose id is id.
RolesOf(id) == {r.role : r \in {r \in profiles : r.id = id}}

\* C19: after any sequence of add_client_by_email calls by callers of any
\* role, the trainer_id of every link is the id of a profile of role trainer
\* and its client_id the id of a profile of role client.
C19_LinkJoinsTrainerToClient ==
  \A l \in BagToSet(clients) :
    /\ RolesOf(l.trainer_id) = {"trainer"}
    /\ RolesOf(l.client_id) = {"client"}

\* ------------------------------------------------ removeClient
\* C20: a removeClient(clientId) call by a caller with a profile returns true,
\* leaves no link (caller, clientId), and changes the copies of no other
\* link; a call without a profile of the caller returns false and leaves
\* clients as it was; either way the programs, days, assignments, workout
\* logs and profiles are unchanged. An add_client_by_email call that began
\* when the link was absent, as after a removal, for a client-role profile,
\* caller and client still having their profiles, returns the success outcome
\* and commits the one link.
C20_RemoveClientOnlyThatLink ==
  [][/\ \A uid \in Callers, clientId \in Uuids :
          removeClient(Rest, uid, clientId) =>
            LET link == ClientLink(uid, clientId)
            IN /\ UNCHANGED <<training_programs, training_days, program_exercises,
                              workout_logs, profiles>>
               /\ \A l \in BagToSet(clients) \cup BagToSet(clients') :
                    l /= link => CopiesIn(l, clients') = CopiesIn(l, clients)
               /\ uid \notin ProfileIds =>
                    /\ result'.rsp.data = FALSE
                    /\ clients' = clients
               /\ uid \in ProfileIds =>
                    /\ result'.rsp.data = TRUE
                    /\ ~BagIn(link, clients')
                    /\ result'.rsp.deleted = CopiesIn(link, clients)
     /\ \A p \in Procs :
          /\ AddClientReturns(p)
          /\ tx[p].client_record.role = "client"
          /\ ~tx[p].pre_link
          /\ tx[p].uid \in ProfileIds
          /\ tx[p].client_record.id \in ProfileIds
          => LET link == ClientLink(tx[p].uid, tx[p].client_record.id)
             IN /\ result'.rsp.data = AddedObject(tx[p].client_record.id)
                /\ CopiesIn(link, clients') = 1
  ]_vars

\* C20's case: the link that the last add-client call committed has been
\* removed by a removeClient call that returned true, and the program its
\* trainer created for that client is still there.
C20_Witness ==
  /\ result.op = "removeClient"
  /\ result.rsp.data = TRUE
  /\ result.rsp.deleted = 1
  /\ tx[Rpc].op = "add_client_by_email"
  /\ tx[Rpc].pc = "returned"
  /\ tx[Rpc].ret = AddedObject(tx[Rpc].client_record.id)
  /\ ~BagIn(ClientLink(tx[Rpc].uid, tx[Rpc].client_record.id), clients)
  /\ \E r \in training_programs :
       /\ r.trainer_id = tx[Rpc].uid
       /\ r.client_id = tx[Rpc].client_record.id
       /\ DaysOfPrograms({r.id}) /= {}

\* ------------------------------------------------ rows of the session user
\* The step adds no row to t's table and draws no id for it.
NoInsert(t) ==
  /\ id_seq'[t] = id_seq[t]
  /\ workout_logs' = workout_logs
  /\ chat_messages' = chat_messages
  /\ progress_photos' = progress_photos

\* C21: every row that logWorkoutSet, sendMessage or saveProgressPhoto
\* writes carries the id of the session user, as client_id of the workout log
\* and of the photo and as sender_id of the message; a logData with a
\* client_id of another account is written under the session user all the
\* same, and not refused; without a session user each of the three returns
\* null and issues no insert.
C21_RowsAttributedToSessionUser ==
  [][/\ \A r \in workout_logs' \ workout_logs :
          \E uid \in Callers \ {NULL}, logData \in LogData :
            logWorkoutSet(Rest, uid, logData) /\ r.client_id = uid
     /\ \A r \in chat_messages' \ chat_messages :
          \E uid \in Callers \ {NULL}, receiverId \in ReceiverIds, messageText \in MessageTexts :
            sendMessage(Rest, uid, receiverId, messageText) /\ r.sender_id = uid
     /\ \A r \in progress_photos' \ progress_photos :
          \E uid \in Callers \ {NULL}, photoUrl \in PhotoUrls, takenOn \in TakenOn :
            saveProgressPhoto(Rest, uid, photoUrl, takenOn, "") /\ r.client_id = uid
     /\ result'.op = "logWorkoutSet" =>
          /\ \A logData \in LogData :
               logWorkoutSet(Rest, NULL, logData) =>
                 result'.rsp.kind = "null" /\ NoInsert("workout_logs")
          /\ \A uid \in Callers \ {NULL}, logData \in LogData :
               /\ "set_number" \in DOMAIN logData
               /\ logData.program_exercise_id \in Ids(program_exercises)
               /\ logWorkoutSet(Rest, uid, logData)
               => \E r \in workout_logs' \ workout_logs :
                    /\ r.client_id = uid
                    /\ r.program_exercise_id = logData.program_exercise_id
                    /\ r.set_number = logData.set_number
     /\ result'.op = "sendMessage" =>
          \A receiverId \in ReceiverIds, messageText \in MessageTexts :
            sendMessage(Rest, NULL, receiverId, messageText) =>
              result'.rsp.kind = "null" /\ NoInsert("chat_messages")
     /\ result'.op = "saveProgressPhoto" =>
          \A photoUrl \in PhotoUrls, takenOn \in TakenOn :
            saveProgressPhoto(Rest, NULL, photoUrl, takenOn, "") =>
              result'.rsp.kind = "null" /\ NoInsert("progress_photos")
  ]_vars

\* C21's case: with two accounts registered, a workout log, a message and a
\* photo have been written, the log and the photo under one account and the
\* message from it to the other.
C21_Witness ==
  /\ Cardinality(ProfileIds) = 2
  /\ \E u \in ProfileIds :
       /\ \E r \in workout_logs : r.client_id = u
       /\ \E r \in progress_photos : r.client_id = u
       /\ \E r \in chat_messages : r.sender_id = u /\ r.receiver_id /= u

====
